---- MODULE Spec2Model ----
(***************************************************************************)
(* Cloud synchronisation of the portfolio app: the per-browser localStorage *)
(* mirrored to one user_state row per user.  Two revisions of CloudSyncPanel*)
(* are modelled side by side:                                               *)
(*   "throttled"  src/unnamed/part_000 lines 57-330  (digest, pushingRef,   *)
(*                typing check, sessionStorage reload throttle)             *)
(*   "lean"       .../AssetTrend.tsx lines 218-489  (pullOnce / pushOnce,   *)
(*                localStorage reload throttle)                             *)
(* together with lib/cloudSync.ts and the Save button of App.tsx.           *)
(* Every await of the source is a point where the closure is "in flight":   *)
(* a record in flights[d] that a later step completes or fails.             *)
(***************************************************************************)
EXTENDS Integers, Sequences, FiniteSets, Bags, TLC

(* ------------------------------ bounds --------------------------------- *)
\* outstanding asynchronous closures per device: when one device runs, and
\* when two do
MaxInFlight == 2
MaxInFlightTwo == 1
\* steps of the user and the environment (errors, focus
\* changes, clock steps, Save clicks) in one run
MaxEnv == 2

(* --------------------------- program constants -------------------------- *)
\* One clock unit is one hour: AUTO_RELOAD_INTERVAL_MS = 60 * 60 * 1000 ms.
AUTO_RELOAD_INTERVAL_MS == 1

\* Date.now() at the start of the run, in clock units; any value of at least
\* one interval behaves like the real epoch time (Date.now() - 0 >= 1 hour).
Epoch == AUTO_RELOAD_INTERVAL_MS

Devices == {"A", "B"}
Users == {"u1"}
NoUser == "none"
Revisions == {"throttled", "lean"}

\* cloudSync.ts SYNC_KEYS, in the order of the array
SYNC_KEYS ==
  << "stockPortfolio", "stockWatchlist", "bankAccounts", "assetTrend",
     "monthlyBudget_1", "monthlyBudget_2", "monthlyBudget_3", "monthlyBudget_4",
     "monthlyBudget_5", "monthlyBudget_6", "monthlyBudget_7", "monthlyBudget_8",
     "monthlyBudget_9", "monthlyBudget_10", "monthlyBudget_11", "monthlyBudget_12" >>

SyncKeySet == {SYNC_KEYS[i] : i \in 1..Len(SYNC_KEYS)}

\* the keys the modelled screens write, and the values they write
EditKeys == {"bankAccounts"}
Values == {"v1", "v2"}

(* --------------------- payloads: Record<string,string> ------------------ *)
EmptyPayload == [k \in {} |-> "v1"]

Put(p, k, v) == [x \in (DOMAIN p) \cup {k} |-> IF x = k THEN v ELSE p[x]]

\* a[k] === b[k] of JavaScript, where a missing key reads undefined
SameAt(a, b, k) ==
  IF k \in DOMAIN a
    THEN k \in DOMAIN b /\ a[k] = b[k]
    ELSE k \notin DOMAIN b

(* ------------------------------ cloudSync.ts ---------------------------- *)
\* a variant that takes every item of the store
readLocalStoragePayload_all(store) == store

\* readLocalStoragePayload: the SYNC_KEYS whose getItem is not null
readLocalStoragePayload(store) ==
  [k \in (DOMAIN store) \cap SyncKeySet |-> store[k]]

\* a variant that mirrors the payload: the synced keys it lacks are removed
writeLocalStoragePayload_mirror(store, payload) ==
  [k \in ((DOMAIN store) \ SyncKeySet) \cup (DOMAIN payload) |->
     IF k \in DOMAIN payload THEN payload[k] ELSE store[k]]

\* a variant that sets only the keys the store lacks
writeLocalStoragePayload_missing(store, payload) ==
  [k \in (DOMAIN store) \cup (DOMAIN payload) |->
     IF k \in DOMAIN store THEN store[k] ELSE payload[k]]

\* writeLocalStoragePayload: setItem for every key of the payload, no removal
writeLocalStoragePayload(store, payload) ==
  [k \in (DOMAIN store) \cup (DOMAIN payload) |->
     IF k \in DOMAIN payload THEN payload[k] ELSE store[k]]

\* JSON.stringify of a payload built by readLocalStoragePayload: the pairs in
\* the insertion order of the object, which is the order of SYNC_KEYS
JSONstringify(payload) ==
  LET ks == SelectSeq(SYNC_KEYS, LAMBDA k : k \in DOMAIN payload)
  IN << <<"{">> >> \o [i \in 1..Len(ks) |-> <<ks[i], payload[ks[i]]>>] \o << <<"}">> >>

\* useRef<string>('')
EmptyString == << >>

\* the user_state row of one user_id (its updated_at is written and never
\* read); pullFromCloud yields null without a row
NoRecord == [exists |-> FALSE, payload |-> EmptyPayload]

\* a variant that walks SYNC_KEYS and wants every one of them in the cloud payload
isSame_allKeys(cloudPayload, localPayload) ==
  \A i \in 1..Len(SYNC_KEYS) :
     /\ SYNC_KEYS[i] \in DOMAIN cloudPayload
     /\ SameAt(cloudPayload, localPayload, SYNC_KEYS[i])

\* Object.keys(cloudPayload).every((k) => localPayload[k] === cloudPayload[k])
isSame(cloudPayload, localPayload) ==
  \A k \in DOMAIN cloudPayload : SameAt(cloudPayload, localPayload, k)

\* AssetTrend.tsx shallowEqualPayload(a, b)
shallowEqualPayload(a, b) ==
  /\ Cardinality(DOMAIN a) = Cardinality(DOMAIN b)
  /\ \A k \in DOMAIN a : SameAt(a, b, k)

(* -------------------------------- state --------------------------------- *)
VARIABLES
  rev,                 \* the revision of CloudSyncPanel that is deployed
  active,              \* the devices that are in use in this run
  now,                 \* Date.now(), in clock units
  remote,              \* user_state: user id -> row
  localStore,          \* localStorage of each device (without the cooldown key)
  reloadMark,          \* the stored 'cloudSyncLastAutoReloadAt' (0: no item)
  storage,             \* "ok" | "nowrite" | "noaccess": the store of the cooldown key
  session,             \* the auth session the browser keeps
  loading,             \* session restore after a page load still pending
  user,                \* user / userId of the component
  status,              \* useState status
  lastPushedRef,       \* lastPushedRef.current
  pushingRef,          \* pushingRef.current
  saving,              \* App.tsx saving
  autoReloadDisabled,  \* lean: useState autoReloadDisabled
  closureDisabled,     \* lean: autoReloadDisabled as captured by the effects' pullOnce
  lastAutoReloadAtRef, \* lean: lastAutoReloadAtRef.current
  flights,             \* the closures suspended at an await
  reloadTimer,         \* a setTimeout(() => window.location.reload(), 600) is pending
  focus,               \* document.activeElement is an INPUT or a TEXTAREA
  reloadedAfterPullRef,\* one-shot: reloadedAfterPullRef.current
  loginCooldown,       \* throttled: useState loginCooldown; lean: less than 5 min
                       \* have passed since lastEmailSentAtRef.current
  otpPending,          \* signIn / sendMagicLink is suspended in signInWithOtp
  publisher,           \* the revision of StockPortfolio that is deployed
  portfolioRate,       \* StockPortfolio: data.exchangeRate
  watchlistRate,       \* StockWatchlist: useState exchangeRate
  reloadedFrom,        \* history: the payload a bootstrap merged when it scheduled
                       \* the reload, until the next bootstrap has its response
  envSteps,            \* history: the steps of the user and the environment so far
  lastOk,              \* history: payload of the device's last successful upsert
  lastReloadAt,        \* history: when the device last scheduled a reload (0: never)
  reloadInLogin,       \* history: the same, forgotten at signOut
  event                \* history: what the last step did

vars ==
  << rev, active, now, remote, localStore, reloadMark, storage, session, loading, user,
     status, lastPushedRef, pushingRef, saving, autoReloadDisabled,
     closureDisabled, lastAutoReloadAtRef, flights, reloadTimer, focus,
     envSteps, lastOk, lastReloadAt, reloadInLogin,
     reloadedAfterPullRef, reloadedFrom, loginCooldown, otpPending,
     publisher, portfolioRate, watchlistRate, event >>

\* the state of the login form, and of the exchange-rate screens
loginVars == << loginCooldown, otpPending >>
rateVars == << publisher, portfolioRate, watchlistRate >>

\* the devices whose cooldown store may be broken, and that may hold the focus
\* in a text field (the other device runs the same code in a sound browser)
FlakyDevices == {"A"}
TypingDevices == {"A"}

IsThrottled == rev = "throttled"
IsLean == rev = "lean"

\* AUTO_RELOAD_KEY, and the items of window.localStorage: the lean revision
\* keeps the cooldown timestamp there, the throttled one in sessionStorage
AUTO_RELOAD_KEY == "cloudSyncLastAutoReloadAt"

localStorageItems(d) ==
  IF ~IsThrottled /\ reloadMark[d] # 0
    THEN Put(localStore[d], AUTO_RELOAD_KEY, "timestamp")
    ELSE localStore[d]

\* one more step of the user or the environment
EnvStep == envSteps < MaxEnv /\ envSteps' = envSteps + 1

(* ------------------------- the reload throttle -------------------------- *)
\* getLastAutoReloadAt.  throttled: Number(sessionStorage.getItem(KEY) || '0'),
\* 0 when the read throws.  lean: Date.now() when disabled, else the item of
\* localStorage, else (the read throws) lastAutoReloadAtRef.current || 0.
getLastAutoReloadAt(d, disabled) ==
  IF IsThrottled
    THEN IF storage[d] = "noaccess" THEN 0 ELSE reloadMark[d]
    ELSE IF disabled THEN now
         ELSE IF storage[d] = "noaccess" THEN lastAutoReloadAtRef[d]
         ELSE reloadMark[d]

\* a variant without the interval test
canAutoReloadNow_always(d, disabled) ==
  IsThrottled \/ ~disabled

\* canAutoReloadNow: Date.now() - last >= AUTO_RELOAD_INTERVAL_MS
canAutoReloadNow(d, disabled) ==
  /\ IsThrottled \/ ~disabled
  /\ now - getLastAutoReloadAt(d, disabled) >= AUTO_RELOAD_INTERVAL_MS

\* markAutoReloadNow: the item after setItem(KEY, String(Date.now())); a
\* throwing setItem leaves it as it was
markAutoReloadNow(d) ==
  IF storage[d] = "ok" THEN now ELSE reloadMark[d]

\* clearAutoReloadMark: the item after removeItem(KEY)
clearAutoReloadMark(d) ==
  IF storage[d] = "noaccess" THEN reloadMark[d] ELSE 0

(* ------------------------ closures in flight ---------------------------- *)
PullKinds == {"bootPull", "tickPull"}
PushKinds == {"bootPush", "tickPush", "save"}

HasSlot(d) ==
  BagCardinality(flights[d]) <
     (IF active = Devices THEN MaxInFlightTwo ELSE MaxInFlight)

\* a closure suspended in pullFromCloud(uid): the row is read when the request
\* is made and handed to the continuation when the response arrives.
\* capDisabled: the autoReloadDisabled its pullOnce closed over (lean).
PullFlight(d, kind, uid, disabled) ==
  [kind |-> kind, uid |-> uid, found |-> remote[uid].exists,
   data |-> remote[uid].payload, cancelled |-> FALSE, capNotReady |-> FALSE,
   capDisabled |-> disabled]

\* a closure suspended in pushToCloud(uid, payload).
\* capNotReady: `status !== 'ready'` as the interval callback closed over it.
PushFlight(d, kind, uid, payload) ==
  [kind |-> kind, uid |-> uid, found |-> FALSE, data |-> payload,
   cancelled |-> FALSE,
   capNotReady |-> IsThrottled /\ kind = "tickPush" /\ status[d] # "ready",
   capDisabled |-> FALSE]

Launch(d, f) == [flights EXCEPT ![d] = @ (+) SetToBag({f})]
Land(d, f) == [flights EXCEPT ![d] = @ (-) SetToBag({f})]

\* a variant that inserts and leaves a row that exists as it is
upsert_ignore(uid, payload) ==
  [remote EXCEPT ![uid] =
     IF @.exists THEN @ ELSE [exists |-> TRUE, payload |-> payload]]

\* pushToCloud: upsert of {user_id, payload, updated_at} on conflict user_id
upsert(uid, payload) ==
  [remote EXCEPT ![uid] = [exists |-> TRUE, payload |-> payload]]

NoEvent ==
  [dev |-> "none", op |-> "none", found |-> FALSE, wrote |-> FALSE,
   reload |-> FALSE, notify |-> FALSE, issued |-> FALSE, unchanged |-> FALSE,
   afterPush |-> FALSE, gap |-> "none", gapInLogin |-> "none",
   same |-> FALSE, foreign |-> FALSE, repeat |-> FALSE, afterSave |-> FALSE]

\* the part of a payload under the keys of SYNC_KEYS
SyncedPart(p) == [k \in (DOMAIN p) \cap SyncKeySet |-> p[k]]

\* no bootstrap has scheduled the reload that loaded this page
NoReloadedFrom == [on |-> FALSE, at |-> 0, payload |-> EmptyPayload]

\* the response f of a bootstrap pull brings the payload that the bootstrap
\* before the reload has merged, less than one interval after that merge
IsRepeat(d, f) ==
  /\ f.kind = "bootPull" /\ ~f.cancelled /\ f.found
  /\ reloadedFrom[d].on /\ f.data = reloadedFrom[d].payload
  /\ now - reloadedFrom[d].at < AUTO_RELOAD_INTERVAL_MS

\* reloadedFrom after the response f of a pull, which schedules a reload or not
NextReloadedFrom(d, f, reload) ==
  IF f.kind = "bootPull" /\ ~f.cancelled
    THEN [reloadedFrom EXCEPT ![d] =
            IF reload THEN [on |-> TRUE, at |-> now, payload |-> f.data]
            ELSE NoReloadedFrom]
    ELSE reloadedFrom

\* how a merge made now relates to the reload scheduled at `last`
Gap(last) ==
  IF last = 0 THEN "first"
  ELSE IF now - last < AUTO_RELOAD_INTERVAL_MS THEN "early" ELSE "late"

Ev(d, op) == [NoEvent EXCEPT !.dev = d, !.op = op]

(* ----------------------- the continuation of a pull --------------------- *)
\* What the code after `await pullFromCloud(...)` does with the response:
\*   store   localStorage afterwards         wrote   writeLocalStoragePayload ran
\*   reload  a reload was scheduled          msg     the text of setMessage, by
\*                                                   class ("keep": none)
\*   goOn    the bootstrap goes on to its push
Quiet(d) ==
  [store |-> localStore[d], wrote |-> FALSE, reload |-> FALSE, msg |-> "keep",
   goOn |-> FALSE]

\* part_000 lines 177-197 (bootstrap) and 225-243 (pull tick)
ThrottledPull(d, f) ==
  LET cloudPayload == f.data
      localPayload == readLocalStoragePayload(localStorageItems(d))
      same == isSame(cloudPayload, localPayload)
      can == canAutoReloadNow(d, FALSE)
      written == writeLocalStoragePayload(localStore[d], cloudPayload)
  IN IF f.kind = "bootPull"
       THEN IF f.cancelled THEN Quiet(d)
            ELSE IF f.found /\ DOMAIN cloudPayload # {}
              THEN IF ~same /\ can
                     THEN [store |-> written, wrote |-> TRUE, reload |-> TRUE,
                           msg |-> "willReload", goOn |-> FALSE]
                     ELSE [store |-> IF same THEN localStore[d] ELSE written,
                           wrote |-> ~same, reload |-> FALSE,
                           msg |-> IF same THEN "checked" ELSE "mergedNoReload",
                           goOn |-> TRUE]
              ELSE [Quiet(d) EXCEPT !.goOn = TRUE]
       ELSE IF ~f.found \/ DOMAIN cloudPayload = {} THEN Quiet(d)
            ELSE IF same THEN Quiet(d)
            ELSE [store |-> written, wrote |-> TRUE, reload |-> can,
                  msg |-> IF can THEN "willReload" ELSE "mergedNoReload",
                  goOn |-> FALSE]

\* AssetTrend.tsx pullOnce, lines 362-390; a throwing localStorage call ends
\* in its catch
LeanPull(d, f) ==
  LET cloudPayload == f.data
      localPayload == readLocalStoragePayload(localStorageItems(d))
      can == canAutoReloadNow(d, f.capDisabled)
      written == writeLocalStoragePayload(localStore[d], cloudPayload)
  IN IF ~f.found THEN Quiet(d)
     ELSE IF storage[d] = "noaccess" THEN Quiet(d)
     ELSE IF shallowEqualPayload(localPayload, cloudPayload) THEN Quiet(d)
     ELSE IF storage[d] # "ok" /\ DOMAIN cloudPayload # {} THEN Quiet(d)
     ELSE [store |-> written, wrote |-> TRUE, reload |-> can,
           msg |-> IF can THEN "willReload" ELSE "pleaseRefresh",
           goOn |-> FALSE]

\* a variant whose bootstrap does not return after it has scheduled the reload
PullOutcome_goOn(d, f) ==
  IF IsThrottled
    THEN [ThrottledPull(d, f) EXCEPT
            !.goOn = f.kind = "bootPull" /\ ~f.cancelled]
    ELSE LeanPull(d, f)

PullOutcome(d, f) == IF IsThrottled THEN ThrottledPull(d, f) ELSE LeanPull(d, f)

\* a variant that pushes the snapshot taken before the merge
BootstrapPushPayload_before(d, out) ==
  readLocalStoragePayload(localStorageItems(d))

\* part_000 line 200: `const localPayload = readLocalStoragePayload()`, read
\* after the merge has written the row's values
BootstrapPushPayload(d, out) == readLocalStoragePayload(out.store)

\* the response of pullFromCloud arrives and the closure runs to its end or to
\* its next await (the bootstrap's pushToCloud)
PullResponse(d, f) ==
  /\ BagIn(f, flights[d]) /\ f.kind \in PullKinds
  /\ LET out == PullOutcome(d, f)
         payload == BootstrapPushPayload(d, out)
     IN /\ localStore' = [localStore EXCEPT ![d] = out.store]
        /\ reloadTimer' = [reloadTimer EXCEPT ![d] = @ \/ out.reload]
        /\ reloadMark' = IF out.reload
                           THEN [reloadMark EXCEPT ![d] = markAutoReloadNow(d)]
                           ELSE reloadMark
        /\ lastAutoReloadAtRef' = IF out.reload /\ ~IsThrottled
                                    THEN [lastAutoReloadAtRef EXCEPT ![d] = now]
                                    ELSE lastAutoReloadAtRef
        /\ autoReloadDisabled' = IF out.reload /\ ~IsThrottled /\ storage[d] # "ok"
                                   THEN [autoReloadDisabled EXCEPT ![d] = TRUE]
                                   ELSE autoReloadDisabled
        /\ flights' = [flights EXCEPT ![d] =
                         (@ (-) SetToBag({f})) (+)
                         (IF out.goOn
                            THEN SetToBag({PushFlight(d, "bootPush", f.uid, payload)})
                            ELSE EmptyBag)]
        /\ lastReloadAt' = IF out.reload THEN [lastReloadAt EXCEPT ![d] = now]
                           ELSE lastReloadAt
        /\ reloadInLogin' = IF out.reload THEN [reloadInLogin EXCEPT ![d] = now]
                            ELSE reloadInLogin
        /\ event' = [Ev(d, IF f.cancelled THEN "cancelledPull" ELSE f.kind) EXCEPT
                       !.found = f.found, !.wrote = out.wrote,
                       !.reload = out.reload,
                       !.notify = out.msg \in {"mergedNoReload", "pleaseRefresh"},
                       !.issued = out.goOn,
                       !.afterPush =
                          /\ f.found /\ lastOk[d].has
                          /\ f.data = lastOk[d].payload
                          /\ readLocalStoragePayload(localStorageItems(d)) = f.data,
                       !.gap = IF out.wrote THEN Gap(lastReloadAt[d]) ELSE "none",
                       !.gapInLogin = IF out.wrote THEN Gap(reloadInLogin[d])
                                      ELSE "none",
                       !.same =
                          /\ f.found
                          /\ isSame(SyncedPart(f.data),
                                    readLocalStoragePayload(localStorageItems(d))),
                       !.foreign =
                          \E k \in (DOMAIN out.store) \ SyncKeySet :
                             ~SameAt(out.store, localStore[d], k),
                       !.repeat = IsRepeat(d, f)]
        /\ reloadedFrom' = NextReloadedFrom(d, f, out.reload)
  /\ UNCHANGED << rev, active, loginVars, rateVars, reloadedAfterPullRef, envSteps, now, remote, storage, session, loading, user, status,
                  lastPushedRef, pushingRef, saving, closureDisabled, focus,
                  lastOk >>

(* ------------------------------ the push side --------------------------- *)
\* part_000 lines 259-284: one firing of the 20 s interval, up to its await.
\* The finally block runs on every early return as well.
ThrottledPushTick(d) ==
  LET payload == readLocalStoragePayload(localStorageItems(d))
      json == JSONstringify(payload)
      isTyping == focus[d]
      issue == ~pushingRef[d] /\ json # lastPushedRef[d] /\ ~isTyping
  IN /\ issue => HasSlot(d)
     /\ pushingRef' = [pushingRef EXCEPT ![d] = issue]
     /\ flights' = IF issue
                     THEN Launch(d, PushFlight(d, "tickPush", user[d], payload))
                     ELSE flights
     /\ event' = [Ev(d, "pushTick") EXCEPT
                    !.issued = issue,
                    !.unchanged = lastOk[d].byTick /\ lastOk[d].payload = payload,
                    !.afterSave = lastOk[d].bySave /\ lastOk[d].payload = payload]

\* AssetTrend.tsx pushOnce, lines 392-401, up to its await
LeanPushOnce(d, kind) ==
  LET payload == readLocalStoragePayload(localStorageItems(d))
      issue == storage[d] # "noaccess"
  IN /\ issue => HasSlot(d)
     /\ pushingRef' = pushingRef
     /\ flights' = IF issue
                     THEN Launch(d, PushFlight(d, IF kind = "save" THEN "save"
                                                  ELSE "tickPush", user[d], payload))
                     ELSE flights
     /\ event' = [Ev(d, kind) EXCEPT
                    !.issued = issue,
                    !.unchanged = lastOk[d].byTick /\ lastOk[d].payload = payload,
                    !.afterSave = lastOk[d].bySave /\ lastOk[d].payload = payload]

\* the two setInterval timers exist: the throttled effects return before
\* setInterval without a user or with status 'error' (part_000 lines 219-221
\* and 255-257), the lean effects without a userId
TickersOn(d) ==
  /\ user[d] # NoUser
  /\ IsThrottled => status[d] # "error"

\* the push interval fires (20 s throttled, 2 min lean)
PushTick(d) ==
  /\ TickersOn(d)
  /\ IF IsThrottled THEN ThrottledPushTick(d) ELSE LeanPushOnce(d, "pushTick")
  /\ UNCHANGED << rev, active, loginVars, rateVars, reloadedAfterPullRef, reloadedFrom, envSteps, now, remote, localStore, reloadMark, storage, session,
                  loading, user, status, lastPushedRef, saving,
                  autoReloadDisabled, closureDisabled, lastAutoReloadAtRef,
                  reloadTimer, focus, lastOk,
                  lastReloadAt, reloadInLogin >>

\* the pull interval fires (1 h throttled, 30 s lean)
PullTick(d) ==
  /\ TickersOn(d)
  /\ HasSlot(d)
  /\ flights' = Launch(d, PullFlight(d, "tickPull", user[d], closureDisabled[d]))
  /\ event' = NoEvent
  /\ UNCHANGED << rev, active, loginVars, rateVars, reloadedAfterPullRef, reloadedFrom, envSteps, now, remote, localStore, reloadMark, storage, session,
                  loading, user, status, lastPushedRef, pushingRef,
                  saving, autoReloadDisabled, closureDisabled,
                  lastAutoReloadAtRef, reloadTimer, focus, lastOk, lastReloadAt, reloadInLogin >>

\* the Save button: App.tsx onSave (lines 40-63), manualSave in the lean panel
Save(d) ==
  /\ EnvStep
  /\ user[d] # NoUser /\ ~loading[d]
  /\ IF IsThrottled
       THEN /\ ~saving[d] /\ HasSlot(d)
            /\ saving' = [saving EXCEPT ![d] = TRUE]
            /\ pushingRef' = pushingRef
            /\ LET payload == readLocalStoragePayload(localStorageItems(d))
               IN /\ flights' = Launch(d, PushFlight(d, "save", user[d], payload))
                  /\ event' = [Ev(d, "save") EXCEPT !.issued = TRUE]
       ELSE saving' = saving /\ LeanPushOnce(d, "save")
  /\ UNCHANGED << rev, active, loginVars, rateVars, reloadedAfterPullRef, reloadedFrom, now, remote, localStore, reloadMark, storage, session,
                  loading, user, status, lastPushedRef,
                  autoReloadDisabled, closureDisabled, lastAutoReloadAtRef,
                  reloadTimer, focus, lastOk,
                  lastReloadAt, reloadInLogin >>

\* a variant that takes the digest of the Local Store as it is when the upsert
\* completes
PushResponse_digestNow(d, f) ==
  /\ BagIn(f, flights[d]) /\ f.kind \in PushKinds
  /\ remote' = upsert(f.uid, f.data)
  /\ flights' = Land(d, f)
  /\ lastOk' = [lastOk EXCEPT ![d] = [has |-> TRUE, byTick |-> f.kind = "tickPush",
                                      bySave |-> f.kind = "save", payload |-> f.data]]
  /\ lastPushedRef' = IF IsThrottled /\ f.kind \in {"bootPush", "tickPush"}
                        THEN [lastPushedRef EXCEPT ![d] =
                                JSONstringify(readLocalStoragePayload(localStorageItems(d)))]
                        ELSE lastPushedRef
  /\ status' = IF IsThrottled /\ (f.kind = "bootPush"
                                  \/ (f.kind = "tickPush" /\ f.capNotReady))
                 THEN [status EXCEPT ![d] = "ready"]
                 ELSE status
  /\ pushingRef' = IF IsThrottled /\ f.kind = "tickPush"
                     THEN [pushingRef EXCEPT ![d] = FALSE]
                     ELSE pushingRef
  /\ saving' = IF IsThrottled /\ f.kind = "save"
                 THEN [saving EXCEPT ![d] = FALSE]
                 ELSE saving
  /\ event' = [Ev(d, "pushDone") EXCEPT !.wrote = ~remote[f.uid].exists \/ remote[f.uid].payload # f.data]
  /\ UNCHANGED << rev, active, loginVars, rateVars, reloadedAfterPullRef, reloadedFrom, envSteps, now, localStore, reloadMark, storage, session, loading,
                  user, autoReloadDisabled, closureDisabled, lastAutoReloadAtRef,
                  reloadTimer, focus, lastReloadAt,
                  reloadInLogin >>

\* the upsert succeeds and the closure runs to its end
PushResponse(d, f) ==
  /\ BagIn(f, flights[d]) /\ f.kind \in PushKinds
  /\ remote' = upsert(f.uid, f.data)
  /\ flights' = Land(d, f)
  /\ lastOk' = [lastOk EXCEPT ![d] = [has |-> TRUE, byTick |-> f.kind = "tickPush",
                                      bySave |-> f.kind = "save", payload |-> f.data]]
  /\ lastPushedRef' = IF IsThrottled /\ f.kind \in {"bootPush", "tickPush"}
                        THEN [lastPushedRef EXCEPT ![d] = JSONstringify(f.data)]
                        ELSE lastPushedRef
  /\ status' = IF IsThrottled /\ (f.kind = "bootPush"
                                  \/ (f.kind = "tickPush" /\ f.capNotReady))
                 THEN [status EXCEPT ![d] = "ready"]
                 ELSE status
  /\ pushingRef' = IF IsThrottled /\ f.kind = "tickPush"
                     THEN [pushingRef EXCEPT ![d] = FALSE]
                     ELSE pushingRef
  /\ saving' = IF IsThrottled /\ f.kind = "save"
                 THEN [saving EXCEPT ![d] = FALSE]
                 ELSE saving
  /\ event' = [Ev(d, "pushDone") EXCEPT !.wrote = ~remote[f.uid].exists \/ remote[f.uid].payload # f.data]
  /\ UNCHANGED << rev, active, loginVars, rateVars, reloadedAfterPullRef, reloadedFrom, envSteps, now, localStore, reloadMark, storage, session, loading,
                  user, autoReloadDisabled, closureDisabled, lastAutoReloadAtRef,
                  reloadTimer, focus, lastReloadAt,
                  reloadInLogin >>

\* what the catch of a failed request is recorded as
FailedOp(kind) ==
  IF kind = "tickPush" THEN "tickPushFailed"
  ELSE IF kind \in PushKinds THEN "pushFailed" ELSE "pullFailed"

\* a variant whose failing push tick leaves pushingRef.current set
RequestFails_keepFlag(d, f) ==
  /\ EnvStep
  /\ BagIn(f, flights[d])
  /\ flights' = Land(d, f)
  /\ status' = IF IsThrottled /\ f.kind \in {"bootPull", "bootPush"}
                 THEN [status EXCEPT ![d] = "error"]
                 ELSE status
  /\ pushingRef' = pushingRef
  /\ saving' = IF IsThrottled /\ f.kind = "save"
                 THEN [saving EXCEPT ![d] = FALSE]
                 ELSE saving
  /\ event' = Ev(d, FailedOp(f.kind))
  /\ UNCHANGED << rev, active, loginVars, rateVars, reloadedAfterPullRef, reloadedFrom, now, remote, localStore, reloadMark, storage, session,
                  loading, user, lastPushedRef, autoReloadDisabled,
                  closureDisabled, lastAutoReloadAtRef, reloadTimer, focus,
                  lastOk, lastReloadAt, reloadInLogin >>

\* pullFromCloud or pushToCloud throws (network or backend error)
RequestFails(d, f) ==
  /\ EnvStep
  /\ BagIn(f, flights[d])
  /\ flights' = Land(d, f)
  /\ status' = IF IsThrottled /\ f.kind \in {"bootPull", "bootPush"}
                 THEN [status EXCEPT ![d] = "error"]
                 ELSE status
  /\ pushingRef' = IF IsThrottled /\ f.kind = "tickPush"
                     THEN [pushingRef EXCEPT ![d] = FALSE]
                     ELSE pushingRef
  /\ saving' = IF IsThrottled /\ f.kind = "save"
                 THEN [saving EXCEPT ![d] = FALSE]
                 ELSE saving
  /\ event' = Ev(d, FailedOp(f.kind))
  /\ UNCHANGED << rev, active, loginVars, rateVars, reloadedAfterPullRef, reloadedFrom, now, remote, localStore, reloadMark, storage, session,
                  loading, user, lastPushedRef, autoReloadDisabled,
                  closureDisabled, lastAutoReloadAtRef, reloadTimer, focus,
                  lastOk, lastReloadAt, reloadInLogin >>

(* --------------------------- session and page --------------------------- *)
\* The effects that run once the component holds a user: the throttled
\* bootstrap up to its `await pullFromCloud` (part_000 lines 165-177), the lean
\* `pullOnce()` of the auto-pull effect (AssetTrend.tsx lines 404-406).  The
\* interval timers exist from here on as long as their guards hold.
StartSession(d, u) ==
  /\ HasSlot(d)
  /\ user' = [user EXCEPT ![d] = u]
  /\ status' = [status EXCEPT ![d] = IF IsThrottled THEN "syncing" ELSE "loggedIn"]
  /\ closureDisabled' = [closureDisabled EXCEPT ![d] = autoReloadDisabled[d]]
  /\ flights' = Launch(d, PullFlight(d, "bootPull", u, autoReloadDisabled[d]))

\* the login link is followed: onAuthStateChange delivers a session
Login(d, u) ==
  /\ d \in active
  /\ ~loading[d] /\ user[d] = NoUser
  /\ session' = [session EXCEPT ![d] = u]
  /\ loading' = loading
  /\ StartSession(d, u)
  /\ event' = NoEvent
  /\ UNCHANGED << rev, active, loginVars, rateVars, reloadedAfterPullRef, reloadedFrom, envSteps, now, remote, localStore, reloadMark, storage,
                  lastPushedRef, pushingRef, saving, autoReloadDisabled,
                  lastAutoReloadAtRef, reloadTimer, focus, lastOk, lastReloadAt, reloadInLogin >>

\* getSession() resolves after a page load (useSupabaseSession; the lean
\* panel's session restore)
SessionRestore(d) ==
  /\ loading[d]
  /\ loading' = [loading EXCEPT ![d] = FALSE]
  /\ session' = session
  /\ IF session[d] # NoUser
       THEN StartSession(d, session[d])
       ELSE UNCHANGED << user, status, closureDisabled, flights >>
  /\ event' = NoEvent
  /\ UNCHANGED << rev, active, loginVars, rateVars, reloadedAfterPullRef, reloadedFrom, envSteps, now, remote, localStore, reloadMark, storage,
                  lastPushedRef, pushingRef, saving, autoReloadDisabled,
                  lastAutoReloadAtRef, reloadTimer, focus, lastOk, lastReloadAt, reloadInLogin >>

\* a variant whose cleanup leaves the closures as they are
CancelBootstrap_none(bag) == bag

\* the cleanup of the bootstrap effect: `cancelled = true` in its closure
CancelBootstrap(bag) ==
  LET hit == {f \in BagToSet(bag) : f.kind = "bootPull" /\ ~f.cancelled}
      rest == [f \in BagToSet(bag) \ hit |-> bag[f]]
      moved == [g \in {[f EXCEPT !.cancelled = TRUE] : f \in hit} |->
                  bag[[g EXCEPT !.cancelled = FALSE]]]
  IN rest (+) moved

\* throttled: signOut (part_000 lines 156-162) and the cleanups of the three
\* effects.  lean: the auth listener delivers no session (there is no logout
\* button); the cleanups clear the two intervals.
SignOut(d) ==
  /\ EnvStep
  /\ user[d] # NoUser
  /\ session' = [session EXCEPT ![d] = NoUser]
  /\ user' = [user EXCEPT ![d] = NoUser]
  /\ flights' = IF IsThrottled
                  THEN [flights EXCEPT ![d] = CancelBootstrap(@)]
                  ELSE flights
  /\ reloadMark' = IF IsThrottled
                     THEN [reloadMark EXCEPT ![d] = clearAutoReloadMark(d)]
                     ELSE reloadMark
  /\ status' = IF IsThrottled THEN [status EXCEPT ![d] = "idle"] ELSE status
  /\ reloadInLogin' = IF IsThrottled THEN [reloadInLogin EXCEPT ![d] = 0]
                      ELSE reloadInLogin
  /\ reloadedFrom' = [reloadedFrom EXCEPT ![d] = NoReloadedFrom]
  /\ event' = NoEvent
  /\ UNCHANGED << rev, active, loginVars, rateVars, reloadedAfterPullRef, now, remote, localStore, storage, loading, lastPushedRef,
                  pushingRef, saving, autoReloadDisabled, closureDisabled,
                  lastAutoReloadAtRef, reloadTimer, focus, lastOk, lastReloadAt >>

\* window.location.reload(): every state of the page is lost, the storages and
\* the auth session are kept
ReloadFires(d) ==
  /\ reloadTimer[d]
  /\ reloadTimer' = [reloadTimer EXCEPT ![d] = FALSE]
  /\ loading' = [loading EXCEPT ![d] = TRUE]
  /\ user' = [user EXCEPT ![d] = NoUser]
  /\ status' = [status EXCEPT ![d] = "idle"]
  /\ lastPushedRef' = [lastPushedRef EXCEPT ![d] = EmptyString]
  /\ pushingRef' = [pushingRef EXCEPT ![d] = FALSE]
  /\ saving' = [saving EXCEPT ![d] = FALSE]
  /\ autoReloadDisabled' = [autoReloadDisabled EXCEPT ![d] = FALSE]
  /\ closureDisabled' = [closureDisabled EXCEPT ![d] = FALSE]
  /\ lastAutoReloadAtRef' = [lastAutoReloadAtRef EXCEPT ![d] = 0]
  /\ flights' = [flights EXCEPT ![d] = EmptyBag]
  /\ focus' = [focus EXCEPT ![d] = FALSE]
  /\ lastOk' = [lastOk EXCEPT ![d] = [has |-> FALSE, byTick |-> FALSE, bySave |-> FALSE, payload |-> EmptyPayload]]
  /\ reloadedAfterPullRef' = [reloadedAfterPullRef EXCEPT ![d] = FALSE]
  /\ loginCooldown' = [loginCooldown EXCEPT ![d] = FALSE]
  /\ otpPending' = [otpPending EXCEPT ![d] = FALSE]
  /\ event' = NoEvent
  /\ UNCHANGED << rev, active, rateVars, reloadedFrom, envSteps, now, remote, localStore, reloadMark, storage, session,
                  lastReloadAt, reloadInLogin >>

(* ------------------------------ environment ----------------------------- *)
\* a budget / stock / bank screen saves its state: localStorage.setItem(k, v)
Edit(d, k, v) ==
  /\ EnvStep
  /\ d \in active
  /\ k \in EditKeys /\ v \in Values
  /\ ~(k \in DOMAIN localStore[d] /\ localStore[d][k] = v)
  /\ IsThrottled \/ storage[d] = "ok"
  /\ localStore' = [localStore EXCEPT ![d] = Put(@, k, v)]
  /\ event' = NoEvent
  /\ UNCHANGED << rev, active, loginVars, rateVars, reloadedAfterPullRef, reloadedFrom, now, remote, reloadMark, storage, session, loading, user,
                  status, lastPushedRef, pushingRef, saving,
                  autoReloadDisabled, closureDisabled, lastAutoReloadAtRef,
                  flights, reloadTimer, focus, lastOk,
                  lastReloadAt, reloadInLogin >>

\* the user puts the cursor into an input, or takes it out
Focus(d) ==
  /\ EnvStep
  /\ d \in TypingDevices /\ d \in active /\ ~loading[d]
  /\ focus' = [focus EXCEPT ![d] = ~@]
  /\ event' = NoEvent
  /\ UNCHANGED << rev, active, loginVars, rateVars, reloadedAfterPullRef, reloadedFrom, now, remote, localStore, reloadMark, storage, session,
                  loading, user, status, lastPushedRef, pushingRef,
                  saving, autoReloadDisabled, closureDisabled,
                  lastAutoReloadAtRef, flights, reloadTimer, lastOk, lastReloadAt, reloadInLogin >>

\* time passes
ClockTick ==
  /\ EnvStep
  /\ now' = now + 1
  /\ event' = NoEvent
  /\ UNCHANGED << rev, active, loginVars, rateVars, reloadedAfterPullRef, reloadedFrom, remote, localStore, reloadMark, storage, session, loading,
                  user, status, lastPushedRef, pushingRef, saving,
                  autoReloadDisabled, closureDisabled, lastAutoReloadAtRef,
                  flights, reloadTimer, focus, lastOk,
                  lastReloadAt, reloadInLogin >>

(* ----------------------------- specification ---------------------------- *)
\* what localStorage holds when the run starts: stockExchangeRate is a key
\* the screens keep outside SYNC_KEYS
InitStores ==
  { [k \in {"stockExchangeRate"} |-> "v1"],
    [k \in {"stockExchangeRate", "stockPortfolio"} |-> "v1"] }

\* what user_state holds when the run starts: nothing, or a row an earlier
\* session of the user has left
InitRemotes ==
  { NoRecord,
    [exists |-> TRUE, payload |-> [k \in {"bankAccounts"} |-> "v1"]] }

StorageModes == {"ok", "nowrite", "noaccess"}

\* the stock screens are not open: their tabs are not the active one
InitRatesClosed ==
  /\ publisher = "detail"
  /\ portfolioRate = [d \in Devices |-> 0]
  /\ watchlistRate = [d \in Devices |-> 0]

InitCommon ==
  /\ loginCooldown = [d \in Devices |-> FALSE]
  /\ otpPending = [d \in Devices |-> FALSE]
  /\ reloadedAfterPullRef = [d \in Devices |-> FALSE]
  /\ reloadedFrom = [d \in Devices |-> NoReloadedFrom]
  /\ now = Epoch
  /\ reloadMark = [d \in Devices |-> 0]
  /\ storage \in {s \in [Devices -> StorageModes] :
                    \A d \in Devices \ FlakyDevices : s[d] = "ok"}
  /\ session = [d \in Devices |-> NoUser]
  /\ user = [d \in Devices |-> NoUser]
  /\ status = [d \in Devices |-> "idle"]
  /\ lastPushedRef = [d \in Devices |-> EmptyString]
  /\ pushingRef = [d \in Devices |-> FALSE]
  /\ saving = [d \in Devices |-> FALSE]
  /\ autoReloadDisabled = [d \in Devices |-> FALSE]
  /\ closureDisabled = [d \in Devices |-> FALSE]
  /\ lastAutoReloadAtRef = [d \in Devices |-> 0]
  /\ flights = [d \in Devices |-> EmptyBag]
  /\ reloadTimer = [d \in Devices |-> FALSE]
  /\ focus = [d \in Devices |-> FALSE]
  /\ envSteps = 0
  /\ lastOk = [d \in Devices |-> [has |-> FALSE, byTick |-> FALSE, bySave |-> FALSE, payload |-> EmptyPayload]]
  /\ lastReloadAt = [d \in Devices |-> 0]
  /\ reloadInLogin = [d \in Devices |-> 0]
  /\ event = NoEvent

\* one device in use, in every environment
Init ==
  /\ InitCommon
  /\ InitRatesClosed
  /\ rev \in Revisions
  /\ remote \in [Users -> InitRemotes]
  /\ loading = [d \in Devices |-> FALSE]
  /\ active = {"A"}
  /\ localStore \in {s \in [Devices -> InitStores] : s["B"] = s["A"]}

Next ==
  \/ \E d \in Devices, u \in Users : Login(d, u)
  \/ \E d \in Devices : SessionRestore(d)
  \/ \E d \in Devices : SignOut(d)
  \/ \E d \in Devices : ReloadFires(d)
  \/ \E d \in Devices : PullTick(d)
  \/ \E d \in Devices : PushTick(d)
  \/ \E d \in Devices : Save(d)
  \/ \E d \in Devices : \E f \in BagToSet(flights[d]) : PullResponse(d, f)
  \/ \E d \in Devices : \E f \in BagToSet(flights[d]) : PushResponse(d, f)
  \/ \E d \in Devices : \E f \in BagToSet(flights[d]) : RequestFails(d, f)
  \/ \E d \in Devices, k \in EditKeys, v \in Values : Edit(d, k, v)
  \/ \E d \in Devices : Focus(d)
  \/ ClockTick

Spec == Init /\ [][Next]_vars

\* The same program on a device whose storages work, with the scheduling the
\* browser gives: an interval timer that is set keeps firing, a request gets
\* its response (or its error, which the run allows MaxEnv times at most), a
\* pending reload fires and getSession() resolves.
InitFair ==
  /\ Init
  /\ storage = [d \in Devices |-> "ok"]

Fairness ==
  \A d \in Devices :
     /\ SF_vars(PushTick(d))
     /\ SF_vars(PullTick(d))
     /\ WF_vars(\E f \in BagToSet(flights[d]) : PullResponse(d, f))
     /\ WF_vars(\E f \in BagToSet(flights[d]) : PushResponse(d, f))
     /\ WF_vars(ReloadFires(d))
     /\ WF_vars(SessionRestore(d))

FairSpec == InitFair /\ [][Next]_vars /\ Fairness

\* Two devices of one user, both with working storages: logins, the timers,
\* the responses, the reloads, and the edits the user makes on device A.
InitTwo ==
  /\ InitCommon
  /\ InitRatesClosed
  /\ rev \in Revisions
  /\ remote \in [Users -> InitRemotes]
  /\ loading = [d \in Devices |-> FALSE]
  /\ active = Devices
  /\ storage = [d \in Devices |-> "ok"]
  /\ localStore \in {s \in [Devices -> InitStores] : s["B"] = s["A"]}

NextTwo ==
  \/ \E d \in Devices, u \in Users : Login(d, u)
  \/ \E d \in Devices : SessionRestore(d)
  \/ \E d \in Devices : ReloadFires(d)
  \/ \E d \in Devices : PullTick(d)
  \/ \E d \in Devices : PushTick(d)
  \/ \E d \in Devices : \E f \in BagToSet(flights[d]) : PullResponse(d, f)
  \/ \E d \in Devices : \E f \in BagToSet(flights[d]) : PushResponse(d, f)
  \/ \E k \in EditKeys, v \in Values : Edit("A", k, v)

SpecTwo == InitTwo /\ [][NextTwo]_vars

\* One device with working storages whose row was written by another client
\* of the table: payload is a jsonb column and holds whatever keys that client
\* has put there, here stockExchangeRate next to the synced keys.
ForeignRemotes ==
  { [exists |-> TRUE, payload |-> [k \in {"stockExchangeRate"} |-> "v2"]],
    [exists |-> TRUE,
     payload |-> [k \in {"bankAccounts", "stockExchangeRate"} |-> "v2"]],
    [exists |-> TRUE,
     payload |-> [k \in {"stockPortfolio", "stockExchangeRate"} |-> "v1"]] }

InitForeign ==
  /\ InitCommon
  /\ InitRatesClosed
  /\ rev \in Revisions
  /\ remote \in [Users -> ForeignRemotes]
  /\ loading = [d \in Devices |-> FALSE]
  /\ active = {"A"}
  /\ storage = [d \in Devices |-> "ok"]
  /\ localStore \in {s \in [Devices -> InitStores] : s["B"] = s["A"]}

SpecForeign == InitForeign /\ [][Next]_vars

(* ------------------ the build without a Supabase client ---------------- *)
\* supabaseClient.ts exports supabase = null when VITE_SUPABASE_URL or
\* VITE_SUPABASE_ANON_KEY is missing.  No session ever exists then, so the
\* logout button is not rendered and the effects never set a timer; what runs
\* is the mount effect, the login button and the Save button of App.tsx.

\* the page shows the panel: the mount effect has run and React has not
\* unmounted the tree
NCAlive(d) == d \in active /\ ~loading[d] /\ status[d] # "unmounted"

\* the mount effect.  throttled: useSupabaseSession (part_002 lines 9-14) sets
\* loading false and session null.  lean: AssetTrend.tsx lines 285-312 read
\* supabase.auth of null; the getSession call is inside try/catch, the
\* onAuthStateChange call of line 300 is not and throws out of the effect,
\* which unmounts the tree.
NCMount(d) ==
  /\ d \in active /\ loading[d]
  /\ loading' = [loading EXCEPT ![d] = FALSE]
  /\ session' = [session EXCEPT ![d] = NoUser]
  /\ status' = IF IsThrottled THEN status ELSE [status EXCEPT ![d] = "unmounted"]
  /\ event' = Ev(d, IF IsThrottled THEN "mounted" ELSE "threw")
  /\ UNCHANGED << rev, active, loginVars, rateVars, reloadedAfterPullRef, reloadedFrom, envSteps, now, remote, localStore, reloadMark, storage,
                  user, lastPushedRef, pushingRef, saving, autoReloadDisabled,
                  closureDisabled, lastAutoReloadAtRef, flights, reloadTimer,
                  focus, lastOk, lastReloadAt, reloadInLogin >>

\* the login button.  throttled: signIn returns with a message (part_000
\* lines 121-125).  lean: sendMagicLink reads supabase.auth inside its try
\* and its catch sets status 'error' (AssetTrend.tsx lines 314-360).
NCSignIn(d) ==
  /\ EnvStep
  /\ NCAlive(d)
  /\ status' = IF IsThrottled THEN status ELSE [status EXCEPT ![d] = "error"]
  /\ event' = Ev(d, "signIn")
  /\ UNCHANGED << rev, active, loginVars, rateVars, reloadedAfterPullRef, reloadedFrom, now, remote, localStore, reloadMark, storage, session,
                  loading, user, lastPushedRef, pushingRef, saving,
                  autoReloadDisabled, closureDisabled, lastAutoReloadAtRef,
                  flights, reloadTimer, focus, lastOk, lastReloadAt, reloadInLogin >>

\* the Save button of App.tsx: onSave alerts and returns (lines 40-44); the
\* lean panel's button is disabled without a userId
NCSave(d) ==
  /\ EnvStep
  /\ NCAlive(d) /\ IsThrottled
  /\ event' = Ev(d, "save")
  /\ UNCHANGED << rev, active, loginVars, rateVars, reloadedAfterPullRef, reloadedFrom, now, remote, localStore, reloadMark, storage, session,
                  loading, user, status, lastPushedRef, pushingRef, saving,
                  autoReloadDisabled, closureDisabled, lastAutoReloadAtRef,
                  flights, reloadTimer, focus, lastOk, lastReloadAt, reloadInLogin >>

\* the page has just been loaded
InitNC ==
  /\ InitCommon
  /\ InitRatesClosed
  /\ rev \in Revisions
  /\ remote \in [Users -> InitRemotes]
  /\ active = {"A"}
  /\ loading = [d \in Devices |-> d \in active]
  /\ localStore \in {s \in [Devices -> InitStores] : s["B"] = s["A"]}

NextNC ==
  \/ \E d \in Devices : NCMount(d)
  \/ \E d \in Devices : NCSignIn(d)
  \/ \E d \in Devices : NCSave(d)
  \/ \E d \in Devices, k \in EditKeys, v \in Values : NCAlive(d) /\ Edit(d, k, v)
  \/ \E d \in Devices : NCAlive(d) /\ Focus(d)
  \/ (\E d \in Devices : NCAlive(d)) /\ ClockTick

SpecNC == InitNC /\ [][NextNC]_vars

(* ------------------------------ login form ------------------------------ *)
Emails == {"", "a@x"}

\* signIn (throttled) / sendMagicLink (lean), called with `email` in the input
\* while the handler sees the cooldown as `cooling`.  The form is rendered
\* while nobody is logged in (lean: always); the button is disabled while
\* status is 'sending' and, in the throttled panel, while loginCooldown.
SignInWith(d, email, cooling) ==
  /\ d \in active /\ ~loading[d]
  /\ IsThrottled \/ IsLean
  /\ IsThrottled => (user[d] = NoUser /\ ~loginCooldown[d])
  /\ status[d] # "sending" /\ ~otpPending[d]
  /\ IF email = ""
       THEN /\ status' = IF IsLean THEN [status EXCEPT ![d] = "error"] ELSE status
            /\ event' = [Ev(d, "signIn") EXCEPT !.notify = TRUE]
            /\ UNCHANGED loginVars
       ELSE IF cooling
         THEN /\ status' = IF IsLean THEN [status EXCEPT ![d] = "error"] ELSE status
              /\ event' = [Ev(d, "signIn") EXCEPT !.notify = TRUE]
              /\ UNCHANGED loginVars
         ELSE /\ status' = [status EXCEPT ![d] = "sending"]
              /\ loginCooldown' = IF IsThrottled
                                    THEN [loginCooldown EXCEPT ![d] = TRUE]
                                    ELSE loginCooldown
              /\ otpPending' = [otpPending EXCEPT ![d] = TRUE]
              /\ event' = [Ev(d, "signIn") EXCEPT !.issued = TRUE,
                                                  !.notify = IsLean]
  /\ UNCHANGED << rev, active, rateVars, reloadedAfterPullRef, reloadedFrom,
                  envSteps, now, remote, localStore, reloadMark, storage,
                  session, loading, user, lastPushedRef, pushingRef, saving,
                  autoReloadDisabled, closureDisabled, lastAutoReloadAtRef,
                  flights, reloadTimer, focus, lastOk, lastReloadAt,
                  reloadInLogin >>

\* a variant whose handler never sees a cooldown
SignIn_noCooldown(d, email) == SignInWith(d, email, FALSE)

SignIn(d, email) == SignInWith(d, email, loginCooldown[d])

\* signInWithOtp resolves without an error: the mail is sent
OtpResponse(d) ==
  /\ otpPending[d]
  /\ otpPending' = [otpPending EXCEPT ![d] = FALSE]
  /\ status' = [status EXCEPT ![d] = IF IsLean THEN "sent" ELSE "waiting"]
  /\ loginCooldown' = IF IsLean THEN [loginCooldown EXCEPT ![d] = TRUE]
                      ELSE loginCooldown
  /\ event' = [Ev(d, "otpSent") EXCEPT !.notify = TRUE]
  /\ UNCHANGED << rev, active, rateVars, reloadedAfterPullRef, reloadedFrom,
                  envSteps, now, remote, localStore, reloadMark, storage,
                  session, loading, user, lastPushedRef, pushingRef, saving,
                  autoReloadDisabled, closureDisabled, lastAutoReloadAtRef,
                  flights, reloadTimer, focus, lastOk, lastReloadAt,
                  reloadInLogin >>

\* signInWithOtp returns an error or throws (rate limit, network)
OtpFails(d) ==
  /\ otpPending[d]
  /\ otpPending' = [otpPending EXCEPT ![d] = FALSE]
  /\ status' = [status EXCEPT ![d] = "error"]
  /\ loginCooldown' = loginCooldown
  /\ event' = [Ev(d, "otpFailed") EXCEPT !.notify = TRUE]
  /\ UNCHANGED << rev, active, rateVars, reloadedAfterPullRef, reloadedFrom,
                  envSteps, now, remote, localStore, reloadMark, storage,
                  session, loading, user, lastPushedRef, pushingRef, saving,
                  autoReloadDisabled, closureDisabled, lastAutoReloadAtRef,
                  flights, reloadTimer, focus, lastOk, lastReloadAt,
                  reloadInLogin >>

\* throttled: the 60 s timer runs setLoginCooldown(false); lean: 5 minutes
\* have passed since lastEmailSentAtRef.current
CooldownElapses(d) ==
  /\ loginCooldown[d]
  /\ loginCooldown' = [loginCooldown EXCEPT ![d] = FALSE]
  /\ event' = NoEvent
  /\ UNCHANGED << rev, active, rateVars, otpPending, reloadedAfterPullRef,
                  reloadedFrom, envSteps, now, remote, localStore, reloadMark,
                  storage, session, loading, user, status, lastPushedRef,
                  pushingRef, saving, autoReloadDisabled, closureDisabled,
                  lastAutoReloadAtRef, flights, reloadTimer, focus, lastOk,
                  lastReloadAt, reloadInLogin >>

\* the login form of a device on which nobody is logged in
InitLogin ==
  /\ InitCommon
  /\ InitRatesClosed
  /\ rev \in Revisions
  /\ active = {"A"}
  /\ remote = [u \in Users |-> [exists |-> FALSE, payload |-> EmptyPayload]]
  /\ loading = [d \in Devices |-> FALSE]
  /\ storage \in [Devices -> {"ok"}]
  /\ localStore \in {s \in [Devices -> InitStores] : s["B"] = s["A"]}

NextLogin ==
  \/ \E d \in Devices : \E e \in Emails : SignIn(d, e)
  \/ \E d \in Devices : OtpResponse(d)
  \/ \E d \in Devices : OtpFails(d)
  \/ \E d \in Devices : CooldownElapses(d)
  \/ \E d \in Devices : \E k \in EditKeys : \E v \in Values : Edit(d, k, v)
  \/ \E d \in Devices : Focus(d)

SpecLogin == InitLogin /\ [][NextLogin]_vars

(* ---------------------------- exchange rate ----------------------------- *)
EXCHANGE_RATE_KEY == "stockExchangeRate"

\* the rates the number input of StockPortfolio delivers: Number(e.target.value)
Rates == {0, 1100, 1300, 1350}

\* the revisions of StockPortfolio: part_001 dispatches `new Event(name)`,
\* portfolio_upload_ready and the lean one a CustomEvent with the rate as detail
Publishers == {"event", "detail", "detailLean"}

\* String(n) of a rate
String(n) == ToString(n)

\* Number(s): the rate a stored string denotes; NaN where it denotes none
IsNaN(s) == ~\E r \in Rates : String(r) = s
Number(s) == CHOOSE r \in Rates : String(r) = s

\* StockWatchlist.getGlobalExchangeRate: the item stockExchangeRate where it
\* is a number; the stockPortfolio item of the model carries no exchangeRate
getGlobalExchangeRate(store) ==
  IF EXCHANGE_RATE_KEY \in DOMAIN store /\ ~IsNaN(store[EXCHANGE_RATE_KEY])
    THEN Number(store[EXCHANGE_RATE_KEY])
    ELSE 0

\* the `detail` of the event a publisher dispatches for data.exchangeRate = r
Detail(pub, r) ==
  IF pub = "event" THEN [isNumber |-> FALSE, value |-> 0]
  ELSE [isNumber |-> TRUE, value |-> r]

\* what a publisher stores under stockExchangeRate for data.exchangeRate = r
StoredRate(pub, r) == String(r)

\* StockWatchlist.onChanged: `if (typeof rate === 'number') setExchangeRate(rate)`
onChanged(current, detail) ==
  IF detail.isNumber THEN detail.value ELSE current

\* the rate input changes data.exchangeRate to r: the effect on
\* [data.exchangeRate] stores the rate and dispatches stockExchangeRateChanged,
\* and the listener of the mounted watchlist runs
SetRate(d, r) ==
  /\ d \in active /\ storage[d] = "ok"
  /\ r \in Rates /\ r # portfolioRate[d]
  /\ portfolioRate' = [portfolioRate EXCEPT ![d] = r]
  /\ localStore' = [localStore EXCEPT ![d] =
                      Put(@, EXCHANGE_RATE_KEY, StoredRate(publisher, r))]
  /\ watchlistRate' = [watchlistRate EXCEPT ![d] =
                         onChanged(@, Detail(publisher, r))]
  /\ event' = Ev(d, "setRate")
  /\ UNCHANGED << rev, active, loginVars, publisher, reloadedAfterPullRef,
                  reloadedFrom, envSteps, now, remote, reloadMark, storage,
                  session, loading, user, status, lastPushedRef, pushingRef,
                  saving, autoReloadDisabled, closureDisabled,
                  lastAutoReloadAtRef, flights, reloadTimer, focus, lastOk,
                  lastReloadAt, reloadInLogin >>

\* the window gets the focus: the watchlist's onFocus re-reads the rate
WindowFocus(d) ==
  /\ d \in active
  /\ watchlistRate' = [watchlistRate EXCEPT ![d] =
                         getGlobalExchangeRate(localStore[d])]
  /\ event' = Ev(d, "windowFocus")
  /\ UNCHANGED << rev, active, loginVars, publisher, portfolioRate,
                  reloadedAfterPullRef, reloadedFrom, envSteps, now, remote,
                  localStore, reloadMark, storage, session, loading, user,
                  status, lastPushedRef, pushingRef, saving,
                  autoReloadDisabled, closureDisabled, lastAutoReloadAtRef,
                  flights, reloadTimer, focus, lastOk, lastReloadAt,
                  reloadInLogin >>

\* both stock screens are mounted and show the stored rate
InitRate ==
  /\ InitCommon
  /\ rev \in Revisions
  /\ publisher \in Publishers
  /\ active = {"A"}
  /\ remote = [u \in Users |-> [exists |-> FALSE, payload |-> EmptyPayload]]
  /\ loading = [d \in Devices |-> FALSE]
  /\ storage \in [Devices -> {"ok"}]
  /\ \E r \in Rates :
       /\ localStore = [d \in Devices |-> Put(EmptyPayload, EXCHANGE_RATE_KEY, String(r))]
       /\ portfolioRate = [d \in Devices |-> r]
       /\ watchlistRate = [d \in Devices |-> r]

NextRate ==
  \/ \E d \in Devices : \E r \in Rates : SetRate(d, r)
  \/ \E d \in Devices : WindowFocus(d)
  \/ \E d \in Devices : \E k \in EditKeys : \E v \in Values : Edit(d, k, v)

SpecRate == InitRate /\ [][NextRate]_vars

(* -------------------------- the one-shot revision ----------------------- *)
\* The CloudSyncPanel of part_000 lines 332-512: a bootstrap that takes the row
\* as it is and reloads once per page (reloadedAfterPullRef), a push interval
\* of 5 s with a digest, no pull interval and no reload throttle.
IsOneShot == rev = "oneshot"

\* the bootstrap effect up to its `await pullFromCloud` (lines 397-407)
OSStart(d, u) ==
  /\ HasSlot(d)
  /\ user' = [user EXCEPT ![d] = u]
  /\ status' = [status EXCEPT ![d] = "syncing"]
  /\ flights' = Launch(d, PullFlight(d, "bootPull", u, FALSE))

\* the login link is followed
OSLogin(d, u) ==
  /\ IsOneShot /\ d \in active
  /\ ~loading[d] /\ user[d] = NoUser
  /\ session' = [session EXCEPT ![d] = u]
  /\ OSStart(d, u)
  /\ event' = NoEvent
  /\ UNCHANGED << rev, active, loginVars, rateVars, reloadedAfterPullRef, reloadedFrom, envSteps, now,
                  remote, localStore, reloadMark, storage, loading,
                  lastPushedRef, pushingRef, saving, autoReloadDisabled,
                  closureDisabled, lastAutoReloadAtRef, reloadTimer, focus,
                  lastOk, lastReloadAt, reloadInLogin >>

\* getSession() resolves after a page load
OSSessionRestore(d) ==
  /\ IsOneShot /\ loading[d]
  /\ loading' = [loading EXCEPT ![d] = FALSE]
  /\ IF session[d] # NoUser
       THEN OSStart(d, session[d])
       ELSE UNCHANGED << user, status, flights >>
  /\ event' = NoEvent
  /\ UNCHANGED << rev, active, loginVars, rateVars, reloadedAfterPullRef, reloadedFrom, envSteps, now,
                  remote, localStore, reloadMark, storage, session,
                  lastPushedRef, pushingRef, saving, autoReloadDisabled,
                  closureDisabled, lastAutoReloadAtRef, reloadTimer, focus,
                  lastOk, lastReloadAt, reloadInLogin >>

\* the bootstrap after `await pullFromCloud` (lines 408-426): a row with keys
\* is written to localStorage without a comparison, and the first such write
\* of the page schedules the reload and returns; otherwise the closure goes
\* on to its pushToCloud
OSBootstrapResponse(d, f) ==
  /\ IsOneShot
  /\ BagIn(f, flights[d]) /\ f.kind = "bootPull"
  /\ LET write == ~f.cancelled /\ f.found /\ DOMAIN f.data # {}
         store == IF write THEN writeLocalStoragePayload(localStore[d], f.data)
                  ELSE localStore[d]
         reload == write /\ ~reloadedAfterPullRef[d]
         goOn == ~f.cancelled /\ ~reload
     IN /\ localStore' = [localStore EXCEPT ![d] = store]
        /\ reloadedAfterPullRef' = [reloadedAfterPullRef EXCEPT ![d] = @ \/ reload]
        /\ reloadTimer' = [reloadTimer EXCEPT ![d] = @ \/ reload]
        /\ flights' = [flights EXCEPT ![d] =
                         (@ (-) SetToBag({f})) (+)
                         (IF goOn
                            THEN SetToBag({[PushFlight(d, "bootPush", f.uid,
                                              readLocalStoragePayload(store))
                                            EXCEPT !.capNotReady = FALSE]})
                            ELSE EmptyBag)]
        /\ lastReloadAt' = IF reload THEN [lastReloadAt EXCEPT ![d] = now]
                           ELSE lastReloadAt
        /\ reloadedFrom' = NextReloadedFrom(d, f, reload)
        /\ event' = [Ev(d, IF f.cancelled THEN "cancelledPull" ELSE "bootPull") EXCEPT
                       !.found = f.found, !.wrote = write, !.reload = reload,
                       !.issued = goOn, !.repeat = IsRepeat(d, f)]
  /\ UNCHANGED << rev, active, loginVars, rateVars, envSteps, now, remote, reloadMark, storage,
                  session, loading, user, status, lastPushedRef, pushingRef,
                  saving, autoReloadDisabled, closureDisabled,
                  lastAutoReloadAtRef, focus, lastOk, reloadInLogin >>

\* one firing of the 5 s interval up to its await (lines 444-453)
OSPushTick(d) ==
  /\ IsOneShot
  /\ user[d] # NoUser /\ status[d] # "error"
  /\ LET payload == readLocalStoragePayload(localStore[d])
         issue == JSONstringify(payload) # lastPushedRef[d]
     IN /\ issue => HasSlot(d)
        /\ flights' = IF issue
                        THEN Launch(d, [PushFlight(d, "tickPush", user[d], payload)
                                        EXCEPT !.capNotReady = status[d] # "ready"])
                        ELSE flights
        /\ event' = [Ev(d, "pushTick") EXCEPT !.issued = issue]
  /\ UNCHANGED << rev, active, loginVars, rateVars, reloadedAfterPullRef, reloadedFrom, envSteps, now,
                  remote, localStore, reloadMark, storage, session, loading,
                  user, status, lastPushedRef, pushingRef, saving,
                  autoReloadDisabled, closureDisabled, lastAutoReloadAtRef,
                  reloadTimer, focus, lastOk, lastReloadAt, reloadInLogin >>

\* the upsert of the bootstrap (lines 428-432) or of a tick (454-460) succeeds
OSPushResponse(d, f) ==
  /\ IsOneShot
  /\ BagIn(f, flights[d]) /\ f.kind \in {"bootPush", "tickPush"}
  /\ remote' = upsert(f.uid, f.data)
  /\ flights' = Land(d, f)
  /\ lastPushedRef' = [lastPushedRef EXCEPT ![d] = JSONstringify(f.data)]
  /\ status' = IF f.kind = "bootPush" \/ f.capNotReady
                 THEN [status EXCEPT ![d] = "ready"]
                 ELSE status
  /\ lastOk' = [lastOk EXCEPT ![d] = [has |-> TRUE, byTick |-> f.kind = "tickPush", bySave |-> FALSE,
                                      payload |-> f.data]]
  /\ event' = [Ev(d, "pushDone") EXCEPT
                 !.wrote = ~remote[f.uid].exists \/ remote[f.uid].payload # f.data]
  /\ UNCHANGED << rev, active, loginVars, rateVars, reloadedAfterPullRef, reloadedFrom, envSteps, now,
                  localStore, reloadMark, storage, session, loading, user,
                  pushingRef, saving, autoReloadDisabled, closureDisabled,
                  lastAutoReloadAtRef, reloadTimer, focus, lastReloadAt,
                  reloadInLogin >>

\* pullFromCloud or pushToCloud throws: the bootstrap's catch sets status
\* 'error' (lines 433-437), the tick's catch logs (461-464)
OSRequestFails(d, f) ==
  /\ IsOneShot
  /\ EnvStep
  /\ BagIn(f, flights[d])
  /\ flights' = Land(d, f)
  /\ status' = IF f.kind \in {"bootPull", "bootPush"}
                 THEN [status EXCEPT ![d] = "error"]
                 ELSE status
  /\ event' = NoEvent
  /\ UNCHANGED << rev, active, loginVars, rateVars, reloadedAfterPullRef, reloadedFrom, now, remote,
                  localStore, reloadMark, storage, session, loading, user,
                  lastPushedRef, pushingRef, saving, autoReloadDisabled,
                  closureDisabled, lastAutoReloadAtRef, reloadTimer, focus,
                  lastOk, lastReloadAt, reloadInLogin >>

\* signOut (lines 389-394) and the cleanups of the two effects
OSSignOut(d) ==
  /\ IsOneShot
  /\ EnvStep
  /\ user[d] # NoUser
  /\ session' = [session EXCEPT ![d] = NoUser]
  /\ user' = [user EXCEPT ![d] = NoUser]
  /\ flights' = [flights EXCEPT ![d] = CancelBootstrap(@)]
  /\ status' = [status EXCEPT ![d] = "idle"]
  /\ reloadedFrom' = [reloadedFrom EXCEPT ![d] = NoReloadedFrom]
  /\ event' = NoEvent
  /\ UNCHANGED << rev, active, loginVars, rateVars, reloadedAfterPullRef, now, remote, localStore,
                  reloadMark, storage, loading, lastPushedRef, pushingRef,
                  saving, autoReloadDisabled, closureDisabled,
                  lastAutoReloadAtRef, reloadTimer, focus, lastOk, lastReloadAt,
                  reloadInLogin >>

InitOneShot ==
  /\ InitCommon
  /\ InitRatesClosed
  /\ rev = "oneshot"
  /\ remote \in [Users -> InitRemotes]
  /\ loading = [d \in Devices |-> FALSE]
  /\ active = {"A"}
  /\ storage = [d \in Devices |-> "ok"]
  /\ localStore \in {s \in [Devices -> InitStores] : s["B"] = s["A"]}

NextOneShot ==
  \/ \E d \in Devices, u \in Users : OSLogin(d, u)
  \/ \E d \in Devices : OSSessionRestore(d)
  \/ \E d \in Devices : OSSignOut(d)
  \/ \E d \in Devices : ReloadFires(d)
  \/ \E d \in Devices : OSPushTick(d)
  \/ \E d \in Devices : \E f \in BagToSet(flights[d]) : OSBootstrapResponse(d, f)
  \/ \E d \in Devices : \E f \in BagToSet(flights[d]) : OSPushResponse(d, f)
  \/ \E d \in Devices : \E f \in BagToSet(flights[d]) : OSRequestFails(d, f)
  \/ \E d \in Devices, k \in EditKeys, v \in Values : Edit(d, k, v)

SpecOneShot == InitOneShot /\ [][NextOneShot]_vars

(* -------------------------------- claims -------------------------------- *)
\* C1: a pull whose response carries the payload this device pushed last,
\* while the synced part of its localStorage is still that payload, finds no
\* difference: localStorage stays as it is, no reload is scheduled and no
\* "please refresh" message is shown.
C1_PushThenPullUpToDate ==
  [][(event'.op \in PullKinds /\ event'.afterPush) =>
       /\ localStore' = localStore
       /\ reloadTimer' = reloadTimer
       /\ ~event'.wrote /\ ~event'.reload /\ ~event'.notify]_vars

\* a pull has answered with the non-empty payload the device pushed before
C1_Witness ==
  /\ event.op \in PullKinds /\ event.afterPush
  /\ lastOk[event.dev].payload # EmptyPayload
  /\ user[event.dev] # NoUser
  /\ remote[user[event.dev]].payload = lastOk[event.dev].payload

\* C2: a push tick that finds the synced snapshot equal to the payload the
\* previous push tick has uploaded with success issues no upsert.
C2_UnchangedIssuesNothing ==
  (event.op = "pushTick" /\ event.unchanged /\ storage[event.dev] = "ok") =>
     ~event.issued

\* what a merging pull with response payload R makes of localStorage L
MergeFrame(L, R, L2) ==
  /\ \A k \in DOMAIN R : k \in DOMAIN L2 /\ L2[k] = R[k]
  /\ \A k \in (DOMAIN L) \ (DOMAIN R) : k \in DOMAIN L2 /\ L2[k] = L[k]

\* C3: after a pull that merges, every key of the remote payload holds the
\* remote value in localStorage, also the keys localStorage lacked, and every
\* other key of localStorage is still there with the value it had; no pull,
\* merging or not, removes a key.
C3_MergeFrame ==
  [][\A d \in Devices : \A f \in BagToSet(flights[d]) :
       PullResponse(d, f) =>
         /\ (DOMAIN localStore[d]) \subseteq DOMAIN localStore'[d]
         /\ event'.wrote => MergeFrame(localStore[d], f.data, localStore'[d])]_vars

\* a pull has merged a payload that lacks a synced key localStorage holds
C3_Witness ==
  /\ event.op \in PullKinds /\ event.wrote
  /\ user[event.dev] # NoUser
  /\ LET L2 == localStore[event.dev]
         R == remote[user[event.dev]].payload
     IN /\ (DOMAIN readLocalStoragePayload(L2)) \ (DOMAIN R) # {}
        /\ DOMAIN R # {}
        /\ \A k \in DOMAIN R : k \in DOMAIN L2 /\ L2[k] = R[k]

\* C4: a push tick that fires while the upsert of an earlier tick is
\* outstanding issues none, so a device never has two upserts of its push
\* ticks outstanding (the revision with the in-flight flag).
C4_OneTickPushInFlight ==
  \A d \in Devices : \A f \in BagToSet(flights[d]) :
     (IsThrottled /\ storage[d] = "ok" /\ f.kind = "tickPush") =>
        /\ flights[d][f] <= 1
        /\ \A g \in BagToSet(flights[d]) : g.kind = "tickPush" => g = f

C6_NoReloadWithoutStorage ==
  (event.op \in PullKinds /\ storage[event.dev] # "ok") => ~event.reload

\* the synced part of every logged-in device's localStorage is the payload of
\* the user's row (no payload at all where there is no row)
Consistent ==
  \A d \in active :
     /\ user[d] # NoUser
     /\ readLocalStoragePayload(localStore[d]) = remote[user[d]].payload

\* the devices stay logged in and the focus stays out of the text fields from
\* some point on, and no request stays without an answer
SteadyUse ==
  /\ <>[](\A d \in active : user[d] # NoUser /\ ~focus[d])
  /\ []<>(\A d \in active : flights[d] = EmptyBag)

\* C7: in steady use (edits and errors end, the timers keep firing), from some
\* point on every device's synced localStorage equals the payload of the row,
\* and no step issues an upsert or merges any more.
C7_EventuallyConsistentAndStable ==
  SteadyUse =>
     /\ <>[]Consistent
     /\ <>[][~event'.issued /\ ~event'.wrote]_vars

\* C8: on a device that holds synced keys, a bootstrap pull that finds no row
\* writes nothing to localStorage, schedules no reload, and goes on to upsert
\* the local snapshot at once.
C8_BootstrapPushesWhenNoRow ==
  (/\ event.op = "bootPull" /\ ~event.found
   /\ storage[event.dev] = "ok"
   /\ readLocalStoragePayload(localStore[event.dev]) # EmptyPayload) =>
     ~event.wrote /\ ~event.reload /\ event.issued

\* C9: device B has uploaded all it holds, and the row has since received
\* bankAccounts = v1 from device A, which B has not pulled yet: a push tick of
\* B issues no upsert (it would put B's older payload over v1).
C9_NoOverwriteBeforePull ==
  LET P == readLocalStoragePayload(localStore["B"])
      R == remote["u1"]
  IN (/\ event.op = "pushTick" /\ event.dev = "B"
      /\ lastOk["B"].has /\ lastOk["B"].payload = P
      /\ R.exists /\ R.payload # P
      /\ "bankAccounts" \in DOMAIN R.payload
      /\ R.payload["bankAccounts"] = "v1") =>
        ~event.issued

\* C10: a push tick that fires while the focus is in an input or a textarea
\* issues no upsert.
C10_NoPushWhileTyping ==
  (event.op = "pushTick" /\ focus[event.dev] /\ storage[event.dev] = "ok") =>
     ~event.issued

\* C11: a pull that merges while the focus is in an input or a textarea
\* schedules no reload.
C11_NoReloadWhileTyping ==
  (/\ event.op \in PullKinds /\ focus[event.dev]
   /\ storage[event.dev] = "ok") =>
     ~event.reload

\* C12: the payload of every upsert that is issued (bootstrap push, push tick,
\* Save) and of every row an upsert has written holds keys of SYNC_KEYS only:
\* neither the cooldown key nor stockExchangeRate is ever transmitted.
C12_OnlySyncKeysSent ==
  /\ \A d \in Devices : \A f \in BagToSet(flights[d]) :
        f.kind \in PushKinds =>
           /\ (DOMAIN f.data) \subseteq SyncKeySet
           /\ AUTO_RELOAD_KEY \notin DOMAIN f.data
           /\ "stockExchangeRate" \notin DOMAIN f.data
  /\ \A d \in Devices : lastOk[d].has => (DOMAIN lastOk[d].payload) \subseteq SyncKeySet

\* an upsert with a synced key is outstanding on a device whose localStorage
\* holds stockExchangeRate and the cooldown key as well
C12_Witness ==
  \E d \in Devices : \E f \in BagToSet(flights[d]) :
     /\ f.kind \in PushKinds /\ f.data # EmptyPayload
     /\ "stockExchangeRate" \in DOMAIN localStorageItems(d)
     /\ AUTO_RELOAD_KEY \in DOMAIN localStorageItems(d)

\* C13: whatever keys the row holds, a pull neither creates nor changes an
\* item of localStorage outside SYNC_KEYS, and a row that equals localStorage
\* on all its synced keys is found up to date (throttled revision).
C13_PullLeavesForeignKeys ==
  (event.op \in PullKinds /\ IsThrottled) =>
     /\ ~event.foreign
     /\ event.same => ~event.wrote

\* C14: a pull whose response equals localStorage on every key the response
\* holds writes nothing, schedules no reload and shows no notification, also
\* when localStorage holds synced keys the response lacks.
C14_EqualOnRemoteKeysIsUpToDate ==
  (event.op \in PullKinds /\ event.same /\ storage[event.dev] = "ok") =>
     ~event.wrote /\ ~event.reload /\ ~event.notify

\* C15: as long as a user is logged in, the pull timer and the push timer
\* exist, whatever request has failed before.
C15_TickersSurviveErrors ==
  \A d \in Devices :
     (user[d] # NoUser /\ storage[d] = "ok") => TickersOn(d)

\* C16: a device without a logged-in user, once the requests it had
\* outstanding are answered, has no timers and an empty lastPushedRef, so the
\* next login starts without a remembered digest.
C16_LogoutForgetsDigest ==
  \A d \in Devices :
     (user[d] = NoUser /\ flights[d] = EmptyBag /\ storage[d] = "ok") =>
        /\ ~TickersOn(d)
        /\ lastPushedRef[d] = EmptyString

\* C17: without a Supabase client nothing is requested and nothing is
\* scheduled: no closure waits for a response, the row is as it was, no timer
\* and no reload are set, no user is reported, no handler throws, and once
\* the mount effect has run loading is false.
C17_NotConfiguredIsNoOp ==
  \A d \in active :
     /\ flights[d] = EmptyBag /\ ~TickersOn(d) /\ ~reloadTimer[d]
     /\ user[d] = NoUser /\ session[d] = NoUser
     /\ remote["u1"] \in InitRemotes /\ ~lastOk[d].has
     /\ event.op # "threw"
     /\ event.op \in {"mounted", "signIn", "save"} => ~loading[d]

\* C18: user_state holds one row per user_id; every completed upsert, from
\* whichever device, makes the payload of the user's row exactly the payload
\* it sent (the same payload again leaves the row as it is), and no other
\* step changes a row.
C18_RowIsLastUpsert ==
  [][/\ \A d \in Devices : \A f \in BagToSet(flights[d]) :
          PushResponse(d, f) =>
             /\ remote'[f.uid] = [exists |-> TRUE, payload |-> f.data]
             /\ \A u \in Users \ {f.uid} : remote'[u] = remote[u]
             /\ ((remote[f.uid].exists /\ remote[f.uid].payload = f.data) =>
                   remote' = remote)
     /\ ((event'.op # "pushDone") => remote' = remote)]_vars

\* device B has completed an upsert after device A completed one with
\* another payload, and the row holds B's
C18_Witness ==
  /\ event.op = "pushDone" /\ event.dev = "B" /\ event.wrote
  /\ lastOk["A"].has /\ lastOk["B"].has
  /\ lastOk["A"].payload # lastOk["B"].payload
  /\ remote["u1"] = [exists |-> TRUE, payload |-> lastOk["B"].payload]

\* C19: no push tick issues an upsert while the bootstrap pull of the login
\* is still waiting for its response.
C19_NoTickPushBeforeBootstrapPull ==
  (event.op = "pushTick" /\ event.issued /\ storage[event.dev] = "ok") =>
     \A f \in BagToSet(flights[event.dev]) :
        ~(f.kind = "bootPull" /\ ~f.cancelled)

\* C20: a bootstrap pull that merges and schedules a reload ends there: its
\* closure issues no upsert and leaves lastPushedRef as it is.
C20_BootstrapStopsAtReload ==
  [][\A d \in Devices : \A f \in BagToSet(flights[d]) :
       (PullResponse(d, f) /\ f.kind = "bootPull" /\ event'.reload) =>
          /\ ~event'.issued
          /\ flights'[d] = flights[d] (-) SetToBag({f})
          /\ lastPushedRef' = lastPushedRef
          /\ status' = status]_vars

\* the throttled bootstrap has merged the row and scheduled the reload, with
\* nothing pushed so far
C20_Witness ==
  /\ IsThrottled /\ event.op = "bootPull" /\ event.wrote /\ event.reload
  /\ reloadTimer[event.dev] /\ ~event.issued
  /\ flights[event.dev] = EmptyBag
  /\ lastPushedRef[event.dev] = EmptyString

\* C21: the bootstrap on the page that a bootstrap's reload has loaded, whose
\* pull brings the row that was merged before the reload (less than one
\* interval ago), schedules no further reload.
C21_NoSecondBootstrapReload ==
  (event.op = "bootPull" /\ event.repeat /\ storage[event.dev] = "ok") =>
     ~event.reload

\* C22: a pull that merges while canAutoReloadNow() is false puts every value
\* of the response into localStorage, schedules no reload and shows the
\* message that asks for a manual refresh.
C22_ThrottledMergeOnlyNotifies ==
  [][\A d \in Devices : \A f \in BagToSet(flights[d]) :
       (/\ PullResponse(d, f) /\ event'.wrote
        /\ ~canAutoReloadNow(d, f.capDisabled)) =>
          /\ \A k \in DOMAIN f.data :
                k \in DOMAIN localStore'[d] /\ localStore'[d][k] = f.data[k]
          /\ ~event'.reload /\ reloadTimer'[d] = reloadTimer[d]
          /\ event'.notify]_vars

\* a pull tick has overwritten a value of localStorage with the row's while a
\* reload was not allowed, and has only shown the message
C22_Witness ==
  /\ event.op = "tickPull" /\ event.wrote /\ event.notify /\ ~event.reload
  /\ ~reloadTimer[event.dev] /\ user[event.dev] # NoUser
  /\ ~canAutoReloadNow(event.dev, closureDisabled[event.dev])
  /\ "bankAccounts" \in DOMAIN localStore[event.dev]
  /\ remote[user[event.dev]].exists
  /\ "bankAccounts" \in DOMAIN remote[user[event.dev]].payload
  /\ localStore[event.dev]["bankAccounts"] = remote[user[event.dev]].payload["bankAccounts"]

\* C23: a push whose upsert fails leaves localStorage and lastPushedRef as
\* they are, and the failing push of a tick clears pushingRef, so the snapshot
\* still differs from the digest and a later tick can send it again.
C23_FailedPushChangesNothing ==
  [][\A d \in Devices : \A f \in BagToSet(flights[d]) :
       (RequestFails(d, f) /\ f.kind \in PushKinds) =>
          /\ localStore' = localStore
          /\ lastPushedRef' = lastPushedRef
          /\ remote' = remote
          /\ (IsThrottled /\ f.kind = "tickPush") => ~pushingRef'[d]]_vars

\* the upsert of a push tick has failed, and the next tick is free to send
\* the snapshot, which the digest does not cover
C23_Witness ==
  /\ IsThrottled /\ event.op = "tickPushFailed"
  /\ ~pushingRef[event.dev] /\ TickersOn(event.dev)
  /\ flights[event.dev] = EmptyBag /\ ~focus[event.dev]
  /\ JSONstringify(readLocalStoragePayload(localStore[event.dev]))
        # lastPushedRef[event.dev]

\* C24: the response of a pull that was requested before the logout, arriving
\* after it, writes nothing to localStorage and schedules no reload.
C24_NoEffectAfterLogout ==
  (/\ event.op \in PullKinds /\ user[event.dev] = NoUser
   /\ storage[event.dev] = "ok") =>
     ~event.wrote /\ ~event.reload


\* C25: a login-link request made while the cooldown is active sends nothing
\* to the identity provider, shows a message and schedules nothing (no retry,
\* no timer, no request in flight); a request with an address made when no
\* cooldown is active is sent.
C25_CooldownBlocksLoginLink ==
  [][\A d \in Devices : \A e \in Emails \ {""} :
       SignIn(d, e) =>
         /\ loginCooldown[d] =>
              /\ ~otpPending'[d] /\ ~event'.issued /\ event'.notify
              /\ loginCooldown' = loginCooldown
              /\ flights' = flights /\ reloadTimer' = reloadTimer
         /\ ~loginCooldown[d] => (otpPending'[d] /\ event'.issued)]_vars

\* the lean form has refused a request in cooldown
C25_Witness ==
  /\ event.op = "signIn" /\ ~event.issued /\ event.notify
  /\ loginCooldown[event.dev] /\ ~otpPending[event.dev]
  /\ status[event.dev] = "error"

\* C26: after a component has stored a new exchange rate and published
\* stockExchangeRateChanged, the mounted watchlist shows the rate that is
\* stored under stockExchangeRate, whichever publisher revision runs.
C26_WatchlistFollowsStoredRate ==
  event.op = "setRate" =>
    /\ ~IsNaN(localStore[event.dev][EXCHANGE_RATE_KEY])
    /\ watchlistRate[event.dev] = Number(localStore[event.dev][EXCHANGE_RATE_KEY])

\* C27: when the device's last successful upsert is a manual save of the
\* snapshot the Local Store still holds, the push tick issues no upsert
\* (throttled panel in the steady state, bootstrap done, working storage).
C27_NoPushAfterManualSave ==
  (/\ IsThrottled /\ event.op = "pushTick" /\ event.afterSave
   /\ status[event.dev] = "ready" /\ lastPushedRef[event.dev] # EmptyString
   /\ storage[event.dev] = "ok") => ~event.issued

\* C28: a bootstrap whose pull returns after the user has logged out or the
\* identity has changed (its effect was cleaned up while the pull was in
\* flight) writes nothing to the Local Store, schedules no reload and issues
\* no push (throttled panel).
C28_CancelledBootstrapDoesNothing ==
  [][\A d \in Devices : \A f \in BagToSet(flights[d]) :
       (/\ IsThrottled /\ PullResponse(d, f) /\ f.kind = "bootPull"
        /\ (f.cancelled \/ user[d] # f.uid)) =>
          /\ localStore' = localStore
          /\ reloadTimer' = reloadTimer /\ reloadMark' = reloadMark
          /\ flights' = Land(d, f)
          /\ ~event'.wrote /\ ~event'.reload /\ ~event'.issued]_vars

\* the pull of a bootstrap cancelled by a logout has returned a row that
\* differs from the Local Store, and nothing was done with it
C28_Witness ==
  /\ IsThrottled /\ event.op = "cancelledPull" /\ event.found /\ ~event.same
  /\ user[event.dev] = NoUser
  /\ ~event.wrote /\ ~event.reload /\ ~event.issued
  /\ ~reloadTimer[event.dev] /\ flights[event.dev] = EmptyBag

\* C29: lastPushedRef changes only when an upsert of this device completes
\* successfully, and then to the serialization of exactly the payload that
\* upsert sent (which is then the row), whatever the Local Store holds at
\* that moment; a page load empties it.  So it is always empty or the digest
\* of a payload this device has upserted.
C29_DigestIsOfSentPayload ==
  [][\A d \in Devices :
       lastPushedRef'[d] # lastPushedRef[d] =>
         \/ lastPushedRef'[d] = EmptyString /\ loading'[d]
         \/ \E f \in BagToSet(flights[d]) :
              /\ f.kind \in PushKinds /\ flights' = Land(d, f)
              /\ lastPushedRef'[d] = JSONstringify(f.data)
              /\ remote'[f.uid].exists /\ remote'[f.uid].payload = f.data]_vars

\* a push has completed while the Local Store no longer holds what was sent,
\* and the digest is that of the payload sent
C29_Witness ==
  /\ IsThrottled /\ event.op = "pushDone"
  /\ lastOk[event.dev].has
  /\ lastPushedRef[event.dev] = JSONstringify(lastOk[event.dev].payload)
  /\ readLocalStoragePayload(localStorageItems(event.dev)) # lastOk[event.dev].payload
  /\ storage[event.dev] = "ok"

====
